---- MODULE Spec2Model ----
(***************************************************************************)
(* PickleS3 (src/utils.py, lines 108-140): a wrapper binding a bucket to   *)
(* two operations, dump (pickle an object and put it at a key) and load    *)
(* (get the bytes at a key and unpickle them).  The model holds the        *)
(* instances' bucket fields, the object store addressed by (bucket, key),  *)
(* and the position and locals of every thread's call in flight.  A call   *)
(* is split where it leaves the process: at the put (line 127) and at the  *)
(* get (line 139); everything between two requests is local to the thread. *)
(***************************************************************************)
EXTENDS Integers, Sequences, FiniteSets, TLC

\* ------------------------------------------------------------------ bounds

\* Calls to dump and load started over a run, all threads together.
MaxCalls == 3

\* ---------------------------------------------------------- Python objects

\* Python values handed to dump and returned by load, as uniform records.
PyNone == [tag |-> "None", n |-> 0, items |-> <<>>]
PyBool(b) == [tag |-> "bool", n |-> IF b THEN 1 ELSE 0, items |-> <<>>]
PyInt(i) == [tag |-> "int", n |-> i, items |-> <<>>]
PyTuple(s) == [tag |-> "tuple", n |-> 0, items |-> s]
\* A lambda: an object pickle cannot serialize (no importable name).
PyLambda == [tag |-> "function", n |-> 0, items |-> <<>>]
\* Not a Python value: marks "no object" in the history variables.
Absent == [tag |-> "absent", n |-> 0, items |-> <<>>]

\* The objects the callers pass as `model` to dump.
Objects ==
  { PyInt(300), PyTuple(<<PyInt(1), PyBool(TRUE)>>), PyTuple(<<PyInt(1), PyLambda>>) }

\* ------------------------------------------------------------------ pickle

\* The opcodes of the pickle format (one byte each) this model uses.
Opcode(name) ==
  CASE name = "PROTO" -> 128
    [] name = "STOP" -> 46
    [] name = "NONE" -> 78
    [] name = "NEWTRUE" -> 136
    [] name = "NEWFALSE" -> 137
    [] name = "BININT" -> 74
    [] name = "BININT1" -> 75
    [] name = "BININT2" -> 77
    [] name = "EMPTY_TUPLE" -> 41
    [] name = "TUPLE1" -> 133
    [] name = "TUPLE2" -> 134
    [] name = "TUPLE3" -> 135
    [] name = "MARK" -> 40
    [] name = "TUPLE" -> 116
    [] name = "BINPUT" -> 113

\* The protocol pk.dump writes when none is given, and the highest pk.loads reads.
Protocol(which) == IF which = "default" THEN 3 ELSE 5

\* The little-endian bytes of n, `width` of them.
RECURSIVE LittleEndian(_, _)
LittleEndian(n, width) ==
  IF width = 0 THEN <<>>
  ELSE <<n % 256>> \o LittleEndian(n \div 256, width - 1)

\* The number a byte string would encode read most significant byte first.
RECURSIVE FromBigEndian(_)
FromBigEndian(bs) ==
  IF bs = <<>> THEN 0
  ELSE Head(bs) * 256 ^ (Len(bs) - 1) + FromBigEndian(Tail(bs))

\* The number a little-endian byte string encodes.
RECURSIVE FromLittleEndian(_)
FromLittleEndian(bs) ==
  IF bs = <<>> THEN 0
  ELSE Head(bs) + 256 * FromLittleEndian(Tail(bs))

\* Pickler.save: the bytes obj is saved as, with `memo` objects memoized so far.
\* ok is FALSE where pickling raises; out is then what was written before.
RECURSIVE Save(_, _)
RECURSIVE SaveAll(_, _)
SaveAll(objs, memo) ==
  IF objs = <<>> THEN [ok |-> TRUE, out |-> <<>>, memo |-> memo]
  ELSE LET first == Save(Head(objs), memo)
       IN IF ~first.ok THEN first
          ELSE LET rest == SaveAll(Tail(objs), first.memo)
               IN [ok |-> rest.ok, out |-> first.out \o rest.out, memo |-> rest.memo]

Save(obj, memo) ==
  CASE obj.tag = "None" ->
         [ok |-> TRUE, out |-> <<Opcode("NONE")>>, memo |-> memo]
    [] obj.tag = "bool" ->
         [ok |-> TRUE, memo |-> memo,
          out |-> <<IF obj.n = 1 THEN Opcode("NEWTRUE") ELSE Opcode("NEWFALSE")>>]
    [] obj.tag = "int" ->
         [ok |-> TRUE, memo |-> memo,
          out |-> IF obj.n <= 255 THEN <<Opcode("BININT1"), obj.n>>
                  ELSE IF obj.n <= 65535
                       THEN <<Opcode("BININT2")>> \o LittleEndian(obj.n, 2)
                       ELSE <<Opcode("BININT")>> \o LittleEndian(obj.n, 4)]
    [] obj.tag = "tuple" ->
         IF obj.items = <<>>
         THEN [ok |-> TRUE, out |-> <<Opcode("EMPTY_TUPLE")>>, memo |-> memo]
         ELSE LET elems == SaveAll(obj.items, memo)
                  n == Len(obj.items)
                  build == IF n = 1 THEN <<Opcode("TUPLE1")>>
                           ELSE IF n = 2 THEN <<Opcode("TUPLE2")>>
                           ELSE IF n = 3 THEN <<Opcode("TUPLE3")>>
                           ELSE <<Opcode("TUPLE")>>
                  mark == IF n > 3 THEN <<Opcode("MARK")>> ELSE <<>>
              IN IF ~elems.ok
                 THEN [ok |-> FALSE, out |-> mark \o elems.out, memo |-> elems.memo]
                 ELSE [ok |-> TRUE,
                       out |-> mark \o elems.out \o build
                               \o <<Opcode("BINPUT"), elems.memo>>,
                       memo |-> elems.memo + 1]
    [] OTHER -> [ok |-> FALSE, out |-> <<>>, memo |-> memo]

\* pk.dump(model, file): PROTO, the saved object, STOP.
Dumps(obj) ==
  LET saved == Save(obj, 0)
      head == <<Opcode("PROTO"), Protocol("default")>>
  IN IF saved.ok THEN [ok |-> TRUE, out |-> head \o saved.out \o <<Opcode("STOP")>>]
     ELSE [ok |-> FALSE, out |-> head \o saved.out]

\* The last n elements of a stack, and the stack without them.
TopN(stack, n) == SubSeq(stack, Len(stack) - n + 1, Len(stack))
PopN(stack, n) == SubSeq(stack, 1, Len(stack) - n)

\* The position of the topmost MARK on the stack (0 when there is none).
RECURSIVE TopMark(_, _)
TopMark(stack, i) ==
  IF i = 0 THEN 0
  ELSE IF stack[i].tag = "mark" THEN i
  ELSE TopMark(stack, i - 1)

\* Unpickler.load: the opcode interpreter, from position i with the given stack.
\* ok is FALSE where unpickling raises (unknown opcode, truncated data, stack
\* underflow, unsupported protocol).
RECURSIVE Run(_, _, _)
Run(bs, i, stack) ==
  LET fail == [ok |-> FALSE, value |-> PyNone]
      has(k) == i + k <= Len(bs)
      op == bs[i]
  IN IF i > Len(bs) THEN fail
     ELSE CASE op = Opcode("PROTO") ->
                 IF has(1) /\ bs[i + 1] <= Protocol("highest")
                 THEN Run(bs, i + 2, stack) ELSE fail
            [] op = Opcode("NONE") -> Run(bs, i + 1, Append(stack, PyNone))
            [] op = Opcode("NEWTRUE") -> Run(bs, i + 1, Append(stack, PyBool(TRUE)))
            [] op = Opcode("NEWFALSE") -> Run(bs, i + 1, Append(stack, PyBool(FALSE)))
            [] op = Opcode("BININT1") ->
                 IF has(1) THEN Run(bs, i + 2, Append(stack, PyInt(bs[i + 1])))
                 ELSE fail
            [] op = Opcode("BININT2") ->
                 IF has(2)
                 THEN Run(bs, i + 3,
                          Append(stack, PyInt(FromLittleEndian(SubSeq(bs, i + 1, i + 2)))))
                 ELSE fail
            [] op = Opcode("BININT") ->
                 IF has(4)
                 THEN Run(bs, i + 5,
                          Append(stack, PyInt(FromLittleEndian(SubSeq(bs, i + 1, i + 4)))))
                 ELSE fail
            [] op = Opcode("EMPTY_TUPLE") -> Run(bs, i + 1, Append(stack, PyTuple(<<>>)))
            [] op \in {Opcode("TUPLE1"), Opcode("TUPLE2"), Opcode("TUPLE3")} ->
                 LET n == op - Opcode("TUPLE1") + 1
                 IN IF Len(stack) >= n
                       /\ \A j \in 1..n : TopN(stack, n)[j].tag # "mark"
                    THEN Run(bs, i + 1, Append(PopN(stack, n), PyTuple(TopN(stack, n))))
                    ELSE fail
            [] op = Opcode("MARK") ->
                 Run(bs, i + 1, Append(stack, [tag |-> "mark", n |-> 0, items |-> <<>>]))
            [] op = Opcode("TUPLE") ->
                 LET m == TopMark(stack, Len(stack))
                 IN IF m = 0 THEN fail
                    ELSE Run(bs, i + 1,
                             Append(SubSeq(stack, 1, m - 1),
                                    PyTuple(SubSeq(stack, m + 1, Len(stack)))))
            [] op = Opcode("BINPUT") ->
                 IF has(1) /\ stack # <<>> THEN Run(bs, i + 2, stack) ELSE fail
            [] op = Opcode("STOP") ->
                 IF stack # <<>> /\ stack[Len(stack)].tag # "mark"
                 THEN [ok |-> TRUE, value |-> stack[Len(stack)]]
                 ELSE fail
            [] OTHER -> fail

\* pk.loads(body_string)
Loads(bs) == Run(bs, 1, <<>>)

\* ------------------------------------------------------------------ BytesIO

\* io.BytesIO(): an empty buffer with the stream position at 0.
BytesIO == [data |-> <<>>, pos |-> 0]

\* file.write(bs) as pk.dump does it: bs goes in at the position, which advances.
BytesIOWrite(buf, bs) ==
  [data |-> SubSeq(buf.data, 1, buf.pos) \o bs, pos |-> buf.pos + Len(bs)]

\* io_buffer.read(): the bytes from the position on (none after a write).
BytesIORead(buf) == SubSeq(buf.data, buf.pos + 1, Len(buf.data))

\* io_buffer.getvalue(): the whole contents, wherever the position is.
getvalue(buf) == buf.data

\* ------------------------------------------------------------ object store

\* The buckets of the store, the ones that accept a put, and the keys used.
Buckets == {"b1", "ro"}
Writable == {"b1"}
Keys == {"k1", "k2"}

NoObject == [exists |-> FALSE, body |-> <<>>]
Object(body) == [exists |-> TRUE, body |-> body]

\* Bytes at ("ro", "k2") that are no pickle: b"hi".
ForeignBody == <<104, 105>>

\* What the store holds before the program runs: the writable bucket is
\* empty, the read-only bucket holds a pickle and a foreign payload.
InitialStore ==
  [b \in Buckets |->
     [k \in Keys |->
        IF b = "ro"
        THEN IF k = "k1" THEN Object(Dumps(PyInt(1)).out) ELSE Object(ForeignBody)
        ELSE NoObject]]

\* A store whose put keeps what a key already holds.
S3PutIfAbsent(st, b, k, body) ==
  IF b = "" THEN [err |-> "ParamValidationError", store |-> st]
  ELSE IF b \notin Buckets THEN [err |-> "NoSuchBucket", store |-> st]
  ELSE IF b \notin Writable THEN [err |-> "AccessDenied", store |-> st]
  ELSE IF st[b][k].exists THEN [err |-> "", store |-> st]
  ELSE [err |-> "", store |-> [st EXCEPT ![b][k] = Object(body)]]

\* A put that adds the body to what the key holds.
S3PutAppend(st, b, k, body) ==
  IF b = "" THEN [err |-> "ParamValidationError", store |-> st]
  ELSE IF b \notin Buckets THEN [err |-> "NoSuchBucket", store |-> st]
  ELSE IF b \notin Writable THEN [err |-> "AccessDenied", store |-> st]
  ELSE [err |-> "", store |-> [st EXCEPT ![b][k] = Object(st[b][k].body \o body)]]

\* A put that drops the key: the body lands at every key of the bucket.
S3PutWholeBucket(st, b, k, body) ==
  IF b = "" THEN [err |-> "ParamValidationError", store |-> st]
  ELSE IF b \notin Buckets THEN [err |-> "NoSuchBucket", store |-> st]
  ELSE IF b \notin Writable THEN [err |-> "AccessDenied", store |-> st]
  ELSE [err |-> "", store |-> [st EXCEPT ![b] = [j \in Keys |-> Object(body)]]]

\* Object(bucket, key).put(Body=body) on store st: the error raised ("" for
\* none) and the store afterwards.  A successful put replaces the content at
\* (bucket, key) as a whole.
S3Put(st, b, k, body) ==
  IF b = "" THEN [err |-> "ParamValidationError", store |-> st]
  ELSE IF b \notin Buckets THEN [err |-> "NoSuchBucket", store |-> st]
  ELSE IF b \notin Writable THEN [err |-> "AccessDenied", store |-> st]
  ELSE [err |-> "", store |-> [st EXCEPT ![b][k] = Object(body)]]

\* Object(bucket, key).get()["Body"].read() on store st: the error raised
\* ("" for none) and the bytes read.
S3Get(st, b, k) ==
  IF b = "" THEN [err |-> "ParamValidationError", body |-> <<>>]
  ELSE IF b \notin Buckets THEN [err |-> "NoSuchBucket", body |-> <<>>]
  ELSE IF ~st[b][k].exists THEN [err |-> "NoSuchKey", body |-> <<>>]
  ELSE [err |-> "", body |-> st[b][k].body]

\* ------------------------------------------------------------------- state

Threads == {"t1", "t2"}
Insts == {"p1", "p2"}

\* Python's None as a constructor argument, and the mark of a name that is
\* bound to no instance.
None == "<None>"
NoInstance == "<no instance>"
NoRequest == "<no request>"

\* What callers pass as `bucket` to PickleS3(...).
BucketArgs == {None, "", "b1", "ro"}

VARIABLES
  bucket,    \* bucket[i]: self.bucket of instance i, NoInstance before it exists
  ctor,      \* ctor[i]: the last PickleS3(...) call for i: its argument and result
  store,     \* store[b][k]: the object the store holds at (b, k)
  pc,        \* pc[t]: where thread t is: "idle", "dump_put", "load_loads"
  call,      \* call[t]: the locals of t's call in flight
  outcome,   \* outcome[t]: how t's last call ended
  ncalls,    \* calls started so far
  nreq,      \* requests sent to the store so far
  lastDump,  \* history: lastDump[b][k] is the object of the last put landed at (b, k)
  prev       \* history: prev[t] is t's last successful dump, while no put has
             \* landed on its key since

vars == <<bucket, ctor, store, pc, call, outcome, ncalls, nreq, lastDump, prev>>

NoCtor == [arg |-> NoInstance, result |-> "none"]

\* The locals of a call: self, path, model, the buffer (io_buffer of dump) or
\* body_string (of load); and history: the bucket the call's requests
\* addressed, the puts it issued, what lastDump and prev said at its get, and
\* whether another dump's put landed on its key while its own put was pending.
NoCall ==
  [op |-> "none", self |-> NoInstance, path |-> "", model |-> Absent,
   io_buffer |-> BytesIO, body_string |-> <<>>,
   at |-> NoRequest, nput |-> 0, seen |-> Absent, own |-> Absent, raced |-> FALSE]

\* How a call ended: kind is "return" or "raise", with the value or the error.
NoOutcome == [kind |-> "none", value |-> Absent, err |-> "", of |-> NoCall]

Return(c, v) == [kind |-> "return", value |-> v, err |-> "", of |-> c]
Raise(c, e) == [kind |-> "raise", value |-> Absent, err |-> e, of |-> c]

NoPrev == [bucket |-> NoInstance, path |-> "", model |-> Absent]

Init ==
  /\ bucket = [i \in Insts |-> NoInstance]
  /\ ctor = [i \in Insts |-> NoCtor]
  /\ store = InitialStore
  /\ pc = [t \in Threads |-> "idle"]
  /\ call = [t \in Threads |-> NoCall]
  /\ outcome = [t \in Threads |-> NoOutcome]
  /\ ncalls = 0
  /\ nreq = 0
  /\ lastDump = [b \in Buckets |-> [k \in Keys |-> Absent]]
  /\ prev = [t \in Threads |-> NoPrev]

\* ----------------------------------------------------------------- actions

\* A module-wide bucket in place of the instance's own.
DefaultBucket(i) == "b1"

\* self.bucket of instance i, as dump and load read it.
SelfBucket(i) == bucket[i]

\* The (bucket, key) a call in flight addresses: self.bucket and path.
Target(c) == <<SelfBucket(c.self), c.path>>

\* A constructor that also asks the store whether the bucket is there.
ConstructProbing(i, b) ==
  /\ bucket[i] = NoInstance
  /\ IF b # None
     THEN /\ bucket' = [bucket EXCEPT ![i] = b]
          /\ ctor' = [ctor EXCEPT ![i] = [arg |-> b, result |-> "ok"]]
          /\ nreq' = nreq + 1
     ELSE /\ ctor' = [ctor EXCEPT ![i] = [arg |-> b, result |-> "AssertionError"]]
          /\ UNCHANGED <<bucket, nreq>>
  /\ UNCHANGED <<store, pc, call, outcome, ncalls, lastDump, prev>>

\* A constructor that asserts the truth value of the bucket (`assert bucket`).
ConstructTruthy(i, b) ==
  /\ bucket[i] = NoInstance
  /\ IF b # None /\ b # ""
     THEN /\ bucket' = [bucket EXCEPT ![i] = b]
          /\ ctor' = [ctor EXCEPT ![i] = [arg |-> b, result |-> "ok"]]
     ELSE /\ ctor' = [ctor EXCEPT ![i] = [arg |-> b, result |-> "AssertionError"]]
          /\ UNCHANGED bucket
  /\ UNCHANGED <<store, pc, call, outcome, ncalls, nreq, lastDump, prev>>

\* PickleS3(b) for the name i: `assert bucket is not None`, then the bucket is
\* bound.  A failed assertion leaves no instance.  No request is sent.
Construct(i, b) ==
  /\ bucket[i] = NoInstance
  /\ IF b # None
     THEN /\ bucket' = [bucket EXCEPT ![i] = b]
          /\ ctor' = [ctor EXCEPT ![i] = [arg |-> b, result |-> "ok"]]
     ELSE /\ ctor' = [ctor EXCEPT ![i] = [arg |-> b, result |-> "AssertionError"]]
          /\ UNCHANGED bucket
  /\ UNCHANGED <<store, pc, call, outcome, ncalls, nreq, lastDump, prev>>

\* dump(model, path) up to the put: a fresh buffer, and pk.dump writes the
\* pickle into it.  When pickling raises, the call ends there.
Dump(t, i, model, path) ==
  /\ pc[t] = "idle"
  /\ ncalls < MaxCalls
  /\ bucket[i] # NoInstance
  /\ ncalls' = ncalls + 1
  /\ LET pickled == Dumps(model)
         c == [NoCall EXCEPT !.op = "dump", !.self = i, !.path = path,
                             !.model = model,
                             !.io_buffer = BytesIOWrite(BytesIO, pickled.out)]
     IN IF pickled.ok
        THEN /\ pc' = [pc EXCEPT ![t] = "dump_put"]
             /\ call' = [call EXCEPT ![t] = c]
             /\ outcome' = [outcome EXCEPT ![t] = NoOutcome]
        ELSE /\ outcome' = [outcome EXCEPT ![t] = Raise(c, "PicklingError")]
             /\ UNCHANGED <<pc, call>>
  /\ UNCHANGED <<bucket, ctor, store, nreq, lastDump, prev>>

\* A dump that puts a second time when the first put raises.
DumpPutRetry(t) ==
  /\ pc[t] = "dump_put"
  /\ LET c == call[t]
         b == SelfBucket(c.self)
         first == S3Put(store, b, c.path, getvalue(c.io_buffer))
         put == IF first.err = "" THEN first
                ELSE S3Put(first.store, b, c.path, getvalue(c.io_buffer))
         tries == IF first.err = "" THEN 1 ELSE 2
         done == [c EXCEPT !.at = b, !.nput = c.nput + tries]
     IN /\ store' = put.store
        /\ nreq' = nreq + tries
        /\ IF put.err = ""
           THEN /\ outcome' = [outcome EXCEPT ![t] = Return(done, PyNone)]
                /\ lastDump' = [lastDump EXCEPT ![b][c.path] = c.model]
                /\ prev' = [u \in Threads |->
                              IF u = t
                              THEN [bucket |-> b, path |-> c.path, model |-> c.model]
                              ELSE IF prev[u].bucket = b /\ prev[u].path = c.path
                                   THEN NoPrev ELSE prev[u]]
                /\ call' = [u \in Threads |->
                              IF u = t THEN NoCall
                              ELSE IF pc[u] = "dump_put" /\ Target(call[u]) = <<b, c.path>>
                                   THEN [call[u] EXCEPT !.raced = TRUE]
                                   ELSE call[u]]
           ELSE /\ outcome' = [outcome EXCEPT ![t] = Raise(done, put.err)]
                /\ call' = [call EXCEPT ![t] = NoCall]
                /\ UNCHANGED <<lastDump, prev>>
  /\ pc' = [pc EXCEPT ![t] = "idle"]
  /\ UNCHANGED <<bucket, ctor, ncalls>>

\* The rest of dump: one put of the buffer's whole contents at
\* (self.bucket, path); the buffer is closed and the call returns None, or the
\* put's error reaches the caller.
DumpPut(t) ==
  /\ pc[t] = "dump_put"
  /\ LET c == call[t]
         b == SelfBucket(c.self)
         put == S3Put(store, b, c.path, getvalue(c.io_buffer))
         done == [c EXCEPT !.at = b, !.nput = c.nput + 1]
     IN /\ store' = put.store
        /\ nreq' = nreq + 1
        /\ IF put.err = ""
           THEN /\ outcome' = [outcome EXCEPT ![t] = Return(done, PyNone)]
                /\ lastDump' = [lastDump EXCEPT ![b][c.path] = c.model]
                /\ prev' = [u \in Threads |->
                              IF u = t
                              THEN [bucket |-> b, path |-> c.path, model |-> c.model]
                              ELSE IF prev[u].bucket = b /\ prev[u].path = c.path
                                   THEN NoPrev ELSE prev[u]]
                /\ call' = [u \in Threads |->
                              IF u = t THEN NoCall
                              ELSE IF pc[u] = "dump_put" /\ Target(call[u]) = <<b, c.path>>
                                   THEN [call[u] EXCEPT !.raced = TRUE]
                                   ELSE call[u]]
           ELSE /\ outcome' = [outcome EXCEPT ![t] = Raise(done, put.err)]
                /\ call' = [call EXCEPT ![t] = NoCall]
                /\ UNCHANGED <<lastDump, prev>>
  /\ pc' = [pc EXCEPT ![t] = "idle"]
  /\ UNCHANGED <<bucket, ctor, ncalls>>

\* A load that answers None when the get raises.
LoadOrDefault(t, i, path) ==
  /\ pc[t] = "idle"
  /\ ncalls < MaxCalls
  /\ bucket[i] # NoInstance
  /\ ncalls' = ncalls + 1
  /\ nreq' = nreq + 1
  /\ LET b == SelfBucket(i)
         got == S3Get(store, b, path)
         c == [NoCall EXCEPT !.op = "load", !.self = i, !.path = path,
                             !.body_string = got.body, !.at = b,
                             !.seen = IF b \in Buckets THEN lastDump[b][path] ELSE Absent,
                             !.own = IF prev[t].bucket = b /\ prev[t].path = path
                                     THEN prev[t].model ELSE Absent]
     IN IF got.err = ""
        THEN /\ pc' = [pc EXCEPT ![t] = "load_loads"]
             /\ call' = [call EXCEPT ![t] = c]
             /\ outcome' = [outcome EXCEPT ![t] = NoOutcome]
        ELSE /\ outcome' = [outcome EXCEPT ![t] = Return(c, PyNone)]
             /\ UNCHANGED <<pc, call>>
  /\ UNCHANGED <<bucket, ctor, store, lastDump, prev>>

\* load(path) up to pk.loads: one get of (self.bucket, path) and a read of its
\* body.  When the get raises, the call ends there.
Load(t, i, path) ==
  /\ pc[t] = "idle"
  /\ ncalls < MaxCalls
  /\ bucket[i] # NoInstance
  /\ ncalls' = ncalls + 1
  /\ nreq' = nreq + 1
  /\ LET b == SelfBucket(i)
         got == S3Get(store, b, path)
         c == [NoCall EXCEPT !.op = "load", !.self = i, !.path = path,
                             !.body_string = got.body, !.at = b,
                             !.seen = IF b \in Buckets THEN lastDump[b][path] ELSE Absent,
                             !.own = IF prev[t].bucket = b /\ prev[t].path = path
                                     THEN prev[t].model ELSE Absent]
     IN IF got.err = ""
        THEN /\ pc' = [pc EXCEPT ![t] = "load_loads"]
             /\ call' = [call EXCEPT ![t] = c]
             /\ outcome' = [outcome EXCEPT ![t] = NoOutcome]
        ELSE /\ outcome' = [outcome EXCEPT ![t] = Raise(c, got.err)]
             /\ UNCHANGED <<pc, call>>
  /\ UNCHANGED <<bucket, ctor, store, lastDump, prev>>

\* The rest of load: pk.loads(body_string) is returned, or its error reaches
\* the caller.
LoadUnpickle(t) ==
  /\ pc[t] = "load_loads"
  /\ LET c == call[t]
         loaded == Loads(c.body_string)
     IN outcome' = [outcome EXCEPT ![t] =
                      IF loaded.ok THEN Return(c, loaded.value)
                      ELSE Raise(c, "UnpicklingError")]
  /\ pc' = [pc EXCEPT ![t] = "idle"]
  /\ call' = [call EXCEPT ![t] = NoCall]
  /\ UNCHANGED <<bucket, ctor, store, ncalls, nreq, lastDump, prev>>

Next ==
  \/ \E i \in Insts, b \in BucketArgs : Construct(i, b)
  \/ \E t \in Threads, i \in Insts, model \in Objects, path \in Keys :
       Dump(t, i, model, path)
  \/ \E t \in Threads : DumpPut(t)
  \/ \E t \in Threads, i \in Insts, path \in Keys : Load(t, i, path)
  \/ \E t \in Threads : LoadUnpickle(t)

Spec == Init /\ [][Next]_vars

\* ------------------------------------------------------------------ claims

\* The call thread t started in this step, when it started a load: its locals
\* as the step left them (in flight, or in the outcome when the get raised).
LoadStarted(t) ==
  /\ pc[t] = "idle"
  /\ ncalls' = ncalls + 1
  /\ \/ pc'[t] = "load_loads"
     \/ pc'[t] = "idle" /\ outcome'[t].of.op = "load"

\* A dump of thread t ended in this step.
DumpEnded(t) ==
  /\ outcome'[t] # outcome[t]
  /\ outcome'[t].of.op = "dump"

\* C1: round trip.  A load by a thread that itself dumped object o to the same
\* key through the same bucket, with no put landed on the key in between,
\* returns an object equal to o.
RoundTrip ==
  \A t \in Threads :
    (outcome[t].of.op = "load" /\ outcome[t].of.own # Absent)
      => (outcome[t].kind = "return" /\ outcome[t].value = outcome[t].of.own)

RoundTripWitness ==
  \E t \in Threads :
    /\ outcome[t].of.op = "load"
    /\ outcome[t].of.own = PyInt(300)
    /\ outcome[t].kind = "return"
    /\ outcome[t].value = PyInt(300)

\* C2: overwrite.  Once any dump has landed on a key, a load of the key returns
\* the object of the dump that landed there last, whatever was dumped before.
Overwrite ==
  \A t \in Threads :
    (outcome[t].of.op = "load" /\ outcome[t].of.seen # Absent)
      => (outcome[t].kind = "return" /\ outcome[t].value = outcome[t].of.seen)

\* A load returned the object of one thread's dump at a key where the other
\* thread's dump of another object had landed before.
OverwriteWitness ==
  \E t \in Threads, u \in Threads :
    /\ t # u
    /\ outcome[t].of.op = "load" /\ outcome[t].kind = "return"
    /\ outcome[t].of.own # Absent
    /\ outcome[u].of.op = "dump" /\ outcome[u].kind = "return"
    /\ outcome[u].of.at = outcome[t].of.at /\ outcome[u].of.path = outcome[t].of.path
    /\ outcome[u].of.model # outcome[t].value
    /\ outcome[t].value = outcome[t].of.seen

\* C3: missing key.  A load of a key that holds no object raises (NoSuchKey when
\* the bucket exists), returns nothing, and leaves the store as it was.
MissingKey ==
  [][\A t \in Threads :
       LoadStarted(t) =>
         LET c == IF pc'[t] = "load_loads" THEN call'[t] ELSE outcome'[t].of
             b == c.at
         IN (b \notin Buckets \/ ~store[b][c.path].exists)
              => /\ pc'[t] = "idle"
                 /\ outcome'[t].kind = "raise"
                 /\ b \in Buckets => outcome'[t].err = "NoSuchKey"
                 /\ store' = store]_vars

MissingKeyWitness ==
  \E t \in Threads :
    /\ outcome[t].of.op = "load"
    /\ outcome[t].of.at = "b1"
    /\ outcome[t].kind = "raise"
    /\ outcome[t].err = "NoSuchKey"

NoEmptyBucketInstance ==
  \A i \in Insts : bucket[i] # ""

\* C5, amended: construction fails exactly when the reference is None; any
\* other reference, the empty string included, is bound as given.
OnlyNoneRejected ==
  \A i \in Insts :
    ctor[i] # NoCtor =>
      /\ ctor[i].result = "AssertionError" <=> ctor[i].arg = None
      /\ ctor[i].result = "ok" => bucket[i] = ctor[i].arg

OnlyNoneRejectedWitness ==
  \E i \in Insts, j \in Insts :
    /\ ctor[i].arg = "" /\ ctor[i].result = "ok" /\ bucket[i] = ""
    /\ ctor[j].arg = None /\ ctor[j].result = "AssertionError"

\* C6: atomic upload.  The bytes a load has read are one complete payload: the
\* pickle of the object whose dump landed last on the key before the get, or
\* what the key held from the start; never a part or a mix, also when a dump to
\* the key is in flight.
AtomicUpload ==
  \A t \in Threads :
    pc[t] = "load_loads" =>
      LET c == call[t]
      IN c.body_string = IF c.seen # Absent THEN Dumps(c.seen).out
                         ELSE InitialStore[c.at][c.path].body

\* A load has read a key that holds an earlier dump while another thread's dump
\* of another object to that key has pickled and not yet put.
AtomicUploadWitness ==
  \E t \in Threads, u \in Threads :
    /\ pc[t] = "load_loads" /\ pc[u] = "dump_put"
    /\ Target(call[u]) = <<call[t].at, call[t].path>>
    /\ call[t].seen # Absent
    /\ call[t].seen # call[u].model

\* C7: last write wins.  What a key holds after dumps to it is exactly the
\* complete pickle of the object whose put landed there last.
LastWriteWins ==
  \A b \in Buckets, k \in Keys :
    lastDump[b][k] # Absent => store[b][k] = Object(Dumps(lastDump[b][k]).out)

\* Two dumps of different objects to one key were both waiting to put; both
\* have finished, and the key holds the pickle of the one that put second.
LastWriteWinsWitness ==
  \E t \in Threads, u \in Threads :
    /\ t # u /\ pc[t] = "idle" /\ pc[u] = "idle"
    /\ outcome[t].of.op = "dump" /\ outcome[t].kind = "return" /\ outcome[t].of.raced
    /\ outcome[u].of.op = "dump" /\ outcome[u].kind = "return"
    /\ outcome[u].of.at = outcome[t].of.at /\ outcome[u].of.path = outcome[t].of.path
    /\ outcome[u].of.model # outcome[t].of.model
    /\ store[outcome[t].of.at][outcome[t].of.path]
         = Object(Dumps(outcome[t].of.model).out)

\* Every request of a call, in flight or ended, addressed the bucket of the
\* call's instance; and a thread between calls holds no locals.
CallsUseOwnBucket ==
  \A t \in Threads :
    /\ call[t].at # NoRequest => call[t].at = bucket[call[t].self]
    /\ outcome[t].of.at # NoRequest => outcome[t].of.at = bucket[outcome[t].of.self]
    /\ pc[t] = "idle" => call[t] = NoCall

\* C8: the bucket is fixed.  No step changes the bucket of an instance that
\* exists, every request addresses the instance's bucket, and nothing but the
\* bucket outlives a call.
BucketFixed ==
  [][/\ \A i \in Insts : bucket[i] # NoInstance => bucket'[i] = bucket[i]
     /\ CallsUseOwnBucket']_vars

\* One instance has served a call that returned and a call that raised after
\* its request, and is bound as constructed.
BucketFixedWitness ==
  \E t \in Threads, u \in Threads :
    /\ outcome[t].kind = "return" /\ outcome[u].kind = "raise"
    /\ outcome[t].of.self = outcome[u].of.self
    /\ outcome[u].of.at = "ro" /\ outcome[t].of.at = "ro"
    /\ bucket[outcome[t].of.self] = ctor[outcome[t].of.self].arg

\* C9: a failed dump is a hard stop.  When the object cannot be pickled the dump
\* raises without any put; a dump that raises has put at most once; and the step
\* in which a dump raises leaves the store as it was.
FailedDumpHardStop ==
  [][\A t \in Threads :
       DumpEnded(t) =>
         LET o == outcome'[t]
         IN /\ ~Dumps(o.of.model).ok =>
                 /\ o.kind = "raise" /\ o.err = "PicklingError"
                 /\ o.of.nput = 0 /\ nreq' = nreq
            /\ o.kind = "raise" =>
                 /\ o.of.nput <= 1
                 /\ nreq' <= nreq + 1
                 /\ store' = store
                 /\ lastDump' = lastDump]_vars

\* One dump raised in pickling without a put, another raised at its one put to
\* a key that holds an object, and that object is still there.
FailedDumpWitness ==
  \E t \in Threads, u \in Threads :
    /\ outcome[t].of.op = "dump" /\ outcome[t].err = "PicklingError"
    /\ outcome[t].of.nput = 0
    /\ outcome[u].of.op = "dump" /\ outcome[u].err = "AccessDenied"
    /\ outcome[u].of.nput = 1
    /\ store[outcome[u].of.at][outcome[u].of.path]
         = InitialStore[outcome[u].of.at][outcome[u].of.path]
    /\ store[outcome[u].of.at][outcome[u].of.path].exists

\* C10: frame.  The store changes only at the (bucket, key) of a dump whose put
\* is the step; every other key and bucket keeps its content, the steps of a
\* load change nothing in the store, and a get of any other key or bucket
\* answers after the put what it answered before.
Frame ==
  [][/\ \A b \in Buckets, k \in Keys :
          store'[b][k] # store[b][k] =>
            \E t \in Threads :
              /\ pc[t] = "dump_put" /\ pc'[t] = "idle"
              /\ bucket[call[t].self] = b /\ call[t].path = k
     /\ \A t \in Threads :
          (LoadStarted(t) \/ (pc[t] = "load_loads" /\ pc'[t] = "idle"))
            => store' = store
     /\ \A t \in Threads :
          (pc[t] = "dump_put" /\ pc'[t] = "idle") =>
            \A b \in BucketArgs \ {None}, k \in Keys :
              <<b, k>> # Target(call[t]) => S3Get(store', b, k) = S3Get(store, b, k)]_vars

\* Both keys of the writable bucket hold dumps, of different objects, and a
\* load of one key has returned its object after the dump to the other.
FrameWitness ==
  \E t \in Threads :
    /\ store["b1"]["k1"].exists /\ store["b1"]["k2"].exists
    /\ store["b1"]["k1"] # store["b1"]["k2"]
    /\ outcome[t].of.op = "load" /\ outcome[t].kind = "return"
    /\ outcome[t].of.at = "b1"
    /\ outcome[t].value = lastDump["b1"][outcome[t].of.path]

====
